---- MODULE Spec2Model ----
(***************************************************************************)
(* Model of the three refactoring scripts                                  *)
(*   extract_handlers.py       (the Scanner)                               *)
(*   extract_full_handlers.py  (the Extractor)                             *)
(*   update_message_router.py  (the Rewriter)                              *)
(* and of the three files they share: the source MessageRouter.ts, the     *)
(* listing handler_info.txt and the target StateRouter.ts.                 *)
(*                                                                         *)
(* A file's text is a sequence of tokens.  A token stands for a fixed      *)
(* piece of text; NL is the newline character.  The string operations of   *)
(* the scripts (split, readlines, strip, join, replace, count, re.sub) are *)
(* operators on token sequences.                                           *)
(***************************************************************************)
EXTENDS Integers, Sequences, FiniteSets, TLC

VARIABLES source, listing, target, hist, ext, rw

vars == <<source, listing, target, hist, ext, rw>>

(***************************************************************************)
(* Bounds of the model.                                                    *)
(***************************************************************************)
MaxLines == 4
MaxRuns == 3
MaxListingLines == 2

(***************************************************************************)
(* Tokens.                                                                 *)
(***************************************************************************)
NL == "<nl>"
SP == " "
COLON == ":"

\* "  private async handleEventFoo()": matches the declaration pattern,
\* the name search finds handleEventFoo.
DeclFoo == "  private async handleEventFoo()"
\* "  private async handleTaskBar()"
DeclBar == "  private async handleTaskBar()"
\* "  private async handleBulk<T>()": matches the declaration pattern, but
\* no '(' follows the name, so the name search finds nothing.
DeclGeneric == "  private async handleBulk<T>()"
\* The whole signature of handleStateMessage up to and including its '{',
\* written on one line (every \s* of the Rewriter's pattern matches one
\* blank or nothing).
SigSM == "  private async handleStateMessage(phone: string, userId: string, state: ConversationState, text: string): Promise<void> {"
OPEN == "{"
CLOSE == "}"
\* "  }": a closing brace indented by two blanks.
Close2 == "  }"
\* "'{'": an opening brace inside a string literal.
StrOpen == "'{'"
\* "    switch (state) {"
Switch == "    switch (state) {"
Txt == "txt"
\* The multi-line signature of the new handleStateMessage and its body.
DeclSM == "  private async handleStateMessage("
RetOpen == "  ): Promise<void> {"
IfOpen == "    if (state === ConversationState.IDLE || state === ConversationState.MAIN_MENU) {"
Close4 == "    }"
\* The anchors of the Rewriter and the lines it inserts after them.
ImportNLP == "import { NLPRouter } from '../routing/NLPRouter.js';"
ImportSR == "import { StateRouter } from '../routing/StateRouter.js';"
FieldNLP == "  private nlpRouter: NLPRouter;"
FieldSR == "  private stateRouter: StateRouter;"
InitAnchor == "    // Set callback for showing menu after authentication"
InitSR == "    // Initialize StateRouter with required dependencies"
\* The placeholder of the target and the header the Extractor writes.
Ph1 == "  // Placeholder - will be filled with actual handler implementations"
Ph2 == "  // This is just the structure, the actual implementations will be extracted from MessageRouter.ts"
Hdr == "  // ========== EVENT HANDLERS - FULL IMPLEMENTATION =========="
\* "export class StateRouter {"
ClassSR == "export class StateRouter {"

NameFoo == "handleEventFoo"
NameBar == "handleTaskBar"
NameSM == "handleStateMessage"

Digits == <<"0", "1", "2", "3", "4", "5", "6", "7", "8", "9">>

\* Number of '{' characters in the text of a token.
Opens(tok) ==
    IF tok \in {OPEN, SigSM, StrOpen, Switch, RetOpen, IfOpen, ImportNLP, ImportSR, ClassSR}
    THEN 1 ELSE 0

\* Number of '}' characters in the text of a token.
Closes(tok) ==
    IF tok \in {CLOSE, Close2, Close4, ImportNLP, ImportSR} THEN 1 ELSE 0

\* Number of '{' characters of a token that open a block of the program
\* text (those inside string literals and comments are not structural).
StructOpens(tok) ==
    IF tok \in {OPEN, SigSM, Switch, RetOpen, IfOpen, ImportNLP, ImportSR, ClassSR}
    THEN 1 ELSE 0

StructCloses(tok) ==
    IF tok \in {CLOSE, Close2, Close4, ImportNLP, ImportSR} THEN 1 ELSE 0

IsSpace(tok) == tok \in {NL, SP}

(***************************************************************************)
(* String operations on token sequences.                                   *)
(***************************************************************************)
RECURSIVE Join(_)
\* ''.join(parts): the parts one after the other (the list is halved at each
\* step, so that long texts do not nest deeply).
Join(parts) ==
    IF parts = <<>> THEN <<>>
    ELSE IF Len(parts) = 1 THEN parts[1]
    ELSE LET h == Len(parts) \div 2
         IN  Join(SubSeq(parts, 1, h)) \o Join(SubSeq(parts, h + 1, Len(parts)))

\* s[a:b] of Python for 0 <= a, 0 <= b (0-based, b exclusive, clamped).
Slice(s, a, b) ==
    LET hi == IF b < Len(s) THEN b ELSE Len(s)
    IN  IF a >= hi THEN <<>> ELSE SubSeq(s, a + 1, hi)

RECURSIVE Split(_, _)
\* s.split(sep): the pieces between the separators, always at least one.
\* The pieces of a text are those of its two halves, the last piece of the
\* first half joined to the first piece of the second.
Split(s, sep) ==
    IF s = <<>> THEN << <<>> >>
    ELSE IF Len(s) = 1 THEN (IF s[1] = sep THEN << <<>>, <<>> >> ELSE <<s>>)
    ELSE LET h == Len(s) \div 2
             A == Split(SubSeq(s, 1, h), sep)
             B == Split(SubSeq(s, h + 1, Len(s)), sep)
         IN  SubSeq(A, 1, Len(A) - 1) \o << A[Len(A)] \o B[1] >> \o SubSeq(B, 2, Len(B))

\* f.readlines(): every line keeps its newline; no line after the last one.
ReadLines(s) ==
    LET pieces == Split(s, NL)
        n == Len(pieces)
    IN  [j \in 1..(n - 1) |-> Append(pieces[j], NL)]
        \o (IF pieces[n] = <<>> THEN <<>> ELSE <<pieces[n]>>)

RECURSIVE LStrip(_)
LStrip(s) ==
    IF s # <<>> /\ IsSpace(Head(s)) THEN LStrip(Tail(s)) ELSE s

RECURSIVE RStrip(_)
RStrip(s) ==
    IF s # <<>> /\ IsSpace(s[Len(s)]) THEN RStrip(SubSeq(s, 1, Len(s) - 1)) ELSE s

\* s.strip()
Strip(s) == RStrip(LStrip(s))

\* Whether old occurs in s at position k (1-based).
OccursAt(s, old, k) ==
    /\ k + Len(old) - 1 <= Len(s)
    /\ s[k] = old[1]
    /\ SubSeq(s, k, k + Len(old) - 1) = old

\* The first position from k on at which old occurs in s, or 0.
Find(s, old, k) ==
    LET at == {j \in k..(Len(s) - Len(old) + 1) : OccursAt(s, old, j)}
    IN  IF at = {} THEN 0 ELSE CHOOSE j \in at : \A i \in at : j <= i

RECURSIVE ReplaceFrom(_, _, _, _)
ReplaceFrom(s, old, new, k) ==
    LET j == Find(s, old, k)
    IN  IF j = 0 THEN SubSeq(s, k, Len(s))
        ELSE SubSeq(s, k, j - 1) \o new \o ReplaceFrom(s, old, new, j + Len(old))

\* s.replace(old, new) for a non-empty old: every occurrence, left to right.
ReplaceAll(s, old, new) == ReplaceFrom(s, old, new, 1)

RECURSIVE OccurrencesFrom(_, _, _)
OccurrencesFrom(s, old, k) ==
    LET j == Find(s, old, k)
    IN  IF j = 0 THEN 0 ELSE 1 + OccurrencesFrom(s, old, j + Len(old))

\* s.count(old): the non-overlapping occurrences, left to right.
Occurrences(s, old) == OccurrencesFrom(s, old, 1)

\* line.count('{'); no token holds more than one '{'.
CountOpen(s) == Cardinality({k \in 1..Len(s) : Opens(s[k]) = 1})

\* line.count('}'); no token holds more than one '}'.
CountClose(s) == Cardinality({k \in 1..Len(s) : Closes(s[k]) = 1})

RECURSIVE FormatInt(_)
\* str(n) for n >= 0: the decimal digits.
FormatInt(n) ==
    IF n < 10 THEN <<Digits[n + 1]>>
    ELSE Append(FormatInt(n \div 10), Digits[(n % 10) + 1])

DigitValue(tok) == CHOOSE d \in 0..9 : Digits[d + 1] = tok

IsDigit(tok) == \E d \in 0..9 : Digits[d + 1] = tok

RECURSIVE DigitsValue(_)
DigitsValue(s) ==
    IF s = <<>> THEN 0
    ELSE 10 * DigitsValue(SubSeq(s, 1, Len(s) - 1)) + DigitValue(s[Len(s)])

\* Whether int(s) succeeds: blanks around a non-empty run of digits.
IsInt(s) ==
    LET t == Strip(s)
    IN  t # <<>> /\ \A k \in 1..Len(t) : IsDigit(t[k])

\* int(s) where IsInt(s).
ParseInt(s) == DigitsValue(Strip(s))

(***************************************************************************)
(* The Scanner: extract_handlers.py                                        *)
(***************************************************************************)
\* re.match of the declaration pattern at the start of the line.
MatchesDecl(line) ==
    line # <<>> /\ Head(line) \in {DeclFoo, DeclBar, DeclGeneric, SigSM, DeclSM}

\* The tokens in which a '(' follows "private async <name>".
NamedDecls == {DeclFoo, DeclBar, SigSM, DeclSM}

\* Whether re.search(r'private async (\w+)\(', line) finds a name.
HasName(line) ==
    \E k \in 1..Len(line) : line[k] \in NamedDecls

TokenName(tok) ==
    IF tok = DeclFoo THEN NameFoo
    ELSE IF tok = DeclBar THEN NameBar
    ELSE NameSM

\* group(1) of the first match of the name search.
DeclName(line) ==
    LET k == CHOOSE k \in 1..Len(line) :
                 /\ line[k] \in NamedDecls
                 /\ \A j \in 1..(k - 1) : line[j] \notin NamedDecls
    IN  TokenName(line[k])

NoMethod == [in |-> FALSE, name |-> "", start |-> 0, lines |-> <<>>]

\* brace_count at the declaration line.
DeclBraceCount(line) == CountOpen(line) - CountClose(line)

\* The closing test without its "a '{' was seen" part.
MethodClosedAtZero(brace_count, method_lines) == brace_count = 0

\* The test that closes the method at the current line.
MethodClosed(brace_count, method_lines) ==
    brace_count = 0 /\ CountOpen(Join(method_lines)) > 0

\* The handler put in front of the list instead of at its end.
AddHandlerInFront(handlers, h) == <<h>> \o handlers

\* handlers.append(current_method)
AddHandler(handlers, h) == Append(handlers, h)

RECURSIVE ScanLoop(_, _, _, _, _)
\* The loop over enumerate(lines); i is the 1-based position, i - 1 the
\* index the script uses.
ScanLoop(lines, i, cur, brace_count, handlers) ==
    IF i > Len(lines) THEN [fault |-> FALSE, handlers |-> handlers]
    ELSE LET line == lines[i] IN
         IF MatchesDecl(line)
         THEN IF ~HasName(line)
              THEN [fault |-> TRUE, handlers |-> <<>>]
              ELSE ScanLoop(lines, i + 1,
                            [in |-> TRUE, name |-> DeclName(line),
                             start |-> i - 1, lines |-> <<line>>],
                            DeclBraceCount(line), handlers)
         ELSE IF cur.in
         THEN LET ls == Append(cur.lines, line)
                  bc == brace_count + CountOpen(line) - CountClose(line)
              IN  IF MethodClosed(bc, ls)
                  THEN ScanLoop(lines, i + 1, NoMethod, 0,
                                AddHandler(handlers,
                                           [name |-> cur.name, start |-> cur.start, end |-> i - 1]))
                  ELSE ScanLoop(lines, i + 1, [cur EXCEPT !.lines = ls], bc, handlers)
         ELSE ScanLoop(lines, i + 1, cur, brace_count, handlers)

\* The handlers the Scanner finds in a text.
Scan(content) == ScanLoop(Split(content, NL), 1, NoMethod, 0, <<>>)

RECURSIVE FormatListing(_)
\* The text written to handler_info.txt.
FormatListing(handlers) ==
    IF handlers = <<>> THEN <<>>
    ELSE LET h == Head(handlers)
         IN  <<h.name, COLON>> \o FormatInt(h.start) \o <<COLON>> \o FormatInt(h.end)
             \o <<NL>> \o FormatListing(Tail(handlers))

(***************************************************************************)
(* The listing as the Extractor and the Rewriter read it.                  *)
(***************************************************************************)
ParseFault == [fault |-> TRUE, handlers |-> <<>>]

\* The test that lets handleStateMessage through as well.
IsListedAlways(name) == TRUE

\* name != 'handleStateMessage'
IsListed(name) == name # <<NameSM>>

\* The field count test that accepts extra fields.
ThreeFieldsOrMore(f) == Len(f) >= 3

\* name, start, end = ...split(':') unpacks exactly three fields.
ThreeFields(f) == Len(f) = 3

RECURSIVE ParseLines(_, _)
\* The loop "for line in f" over handler_info.txt.
ParseLines(ls, acc) ==
    IF ls = <<>> THEN [fault |-> FALSE, handlers |-> acc]
    ELSE LET s == Strip(Head(ls)) IN
         IF s = <<>> THEN ParseLines(Tail(ls), acc)
         ELSE LET f == Split(s, COLON) IN
              IF ~ThreeFields(f) THEN ParseFault
              ELSE IF IsListed(f[1])
              THEN IF IsInt(f[2]) /\ IsInt(f[3])
                   THEN ParseLines(Tail(ls),
                                   Append(acc, [name |-> f[1], start |-> ParseInt(f[2]),
                                                end |-> ParseInt(f[3])]))
                   ELSE ParseFault
              ELSE ParseLines(Tail(ls), acc)

\* open('handler_info.txt') and the parse; a missing file is a fault.
ParseListing(file) ==
    IF file.exists THEN ParseLines(ReadLines(file.text), <<>>) ELSE ParseFault

(***************************************************************************)
(* The Extractor: extract_full_handlers.py                                 *)
(***************************************************************************)
\* handlers_to_extract
HandlersToExtract(file) == ParseListing(file)

\* The slice without its last line: lines[start:end].
HandlerLinesExclusive(lines, handler) == Slice(lines, handler.start, handler.end)

\* lines[start:end+1]
HandlerLines(lines, handler) == Slice(lines, handler.start, handler.end + 1)

RECURSIVE ExtractedCode(_, _)
\* extracted_code: the lines of every handler, a '\n' after each handler.
ExtractedCode(lines, handlers) ==
    IF handlers = <<>> THEN <<>>
    ELSE HandlerLines(lines, Head(handlers)) \o <<(<<NL>>)>>
         \o ExtractedCode(lines, Tail(handlers))

Placeholder == <<Ph1, NL, Ph2, NL, CLOSE>>

Header == <<NL, Hdr, NL, NL>>

\* The target written only when the placeholder was found.
ExtractorOutputIfFound(state_router_content, extracted_code) ==
    IF Occurrences(state_router_content, Placeholder) = 0
    THEN state_router_content
    ELSE ReplaceAll(state_router_content, Placeholder, <<>>)
         \o Header \o Join(extracted_code) \o <<CLOSE, NL>>

\* The text the Extractor writes to StateRouter.ts.
ExtractorOutput(state_router_content, extracted_code) ==
    ReplaceAll(state_router_content, Placeholder, <<>>)
    \o Header \o Join(extracted_code) \o <<CLOSE, NL>>

NoExt == [lines |-> <<>>, handlers |-> <<>>, code |-> <<>>]

(***************************************************************************)
(* The Rewriter: update_message_router.py                                  *)
(***************************************************************************)
\* handlers_to_remove
HandlersToRemove(file) == ParseListing(file)

\* The range without its last index: range(start, end).
HandlerRangeExclusive(handler) == handler.start .. (handler.end - 1)

\* range(handler['start'], handler['end'] + 1)
HandlerRange(handler) == handler.start .. handler.end

\* lines_to_remove
LinesToRemove(handlers) ==
    UNION {HandlerRange(handlers[k]) : k \in 1..Len(handlers)}

\* new_lines: the lines whose index is not removed, in order.
NewLines(lines, remove) ==
    Join([i \in 1..Len(lines) |-> IF (i - 1) \notin remove THEN <<lines[i]>> ELSE <<>>])

\* 1. the import line
AddImport(content) ==
    ReplaceAll(content, <<ImportNLP>>, <<ImportNLP, NL, ImportSR>>)

\* The field declaration added after the first occurrence only.
AddFieldOnce(content) ==
    LET k == Find(content, <<FieldNLP>>, 1)
    IN  IF k = 0 THEN content
        ELSE SubSeq(content, 1, k) \o <<NL, FieldSR>> \o SubSeq(content, k + 1, Len(content))

\* 2. the field declaration
AddField(content) ==
    ReplaceAll(content, <<FieldNLP>>, <<FieldNLP, NL, FieldSR>>)

\* state_router_init
StateRouterInit ==
    << InitSR, NL,
       "    this.stateRouter = new StateRouter(", NL,
       "      stateManager,", NL,
       "      eventService,", NL,
       "      reminderService,", NL,
       "      taskService,", NL,
       "      settingsService,", NL,
       "      this.commandRouter,", NL,
       "      this.sendMessage.bind(this),", NL,
       "      this.reactToLastMessage.bind(this)", NL,
       "    );", NL,
       NL,
       InitAnchor >>

\* 3. the initialisation block
AddInit(content) == ReplaceAll(content, <<InitAnchor>>, StateRouterInit)

\* new_handle_state
NewHandleState ==
    << DeclSM, NL,
       "    phone: string,", NL,
       "    userId: string,", NL,
       "    state: ConversationState,", NL,
       "    text: string", NL,
       RetOpen, NL,
       "    // Handle MAIN_MENU state here (not delegated to StateRouter)", NL,
       IfOpen, NL,
       "      await this.handleMainMenuChoice(phone, userId, text);", NL,
       "      return;", NL,
       Close4, NL,
       NL,
       "    // Delegate all other states to StateRouter", NL,
       "    await this.stateRouter.handleStateMessage(phone, userId, state, text);", NL,
       Close2 >>

\* The end of the match of old_handle_state that starts at s[p], or 0.  The
\* pattern is the signature, then [^}]* up to "switch (state) {", then .*?
\* up to the first newline followed by "  }".
MatchEnd(s, p) ==
    IF p > Len(s) \/ s[p] # SigSM THEN 0
    ELSE LET sw == {k \in (p + 1)..Len(s) :
                       /\ s[k] = Switch
                       /\ \A j \in (p + 1)..(k - 1) : Closes(s[j]) = 0}
             ends == {q \in (p + 1)..(Len(s) - 1) :
                       /\ s[q] = NL /\ s[q + 1] = Close2
                       /\ \E k \in sw : k < q}
         IN  IF ends = {} THEN 0
             ELSE 1 + (CHOOSE q \in ends : \A r \in ends : q <= r)

\* The first position from k on at which old_handle_state matches, or 0.
FindMatch(s, k) ==
    LET at == {p \in k..Len(s) : MatchEnd(s, p) > 0}
    IN  IF at = {} THEN 0 ELSE CHOOSE p \in at : \A i \in at : p <= i

RECURSIVE ReSubFrom(_, _)
ReSubFrom(s, k) ==
    LET p == FindMatch(s, k)
    IN  IF p = 0 THEN SubSeq(s, k, Len(s))
        ELSE SubSeq(s, k, p - 1) \o NewHandleState \o ReSubFrom(s, MatchEnd(s, p) + 1)

\* 4. re.sub(old_handle_state, new_handle_state, content, flags=re.DOTALL)
ReSub(s) == ReSubFrom(s, 1)

\* The locals of a run of the Rewriter; steps are the values of content
\* after the join and after each of the substitutions 1, 2 and 3.
NoRw == [lines |-> <<>>, handlers |-> <<>>, remove |-> {}, new_lines |-> <<>>,
         steps |-> <<>>]

(***************************************************************************)
(* The runs of the three scripts.                                          *)
(***************************************************************************)
\* The record of one run: the script, whether it ran to its end, and the
\* three files as they were when it started.
Ran(op, ok) ==
    [op |-> op, ok |-> ok, source |-> source, listing |-> listing, target |-> target]

\* One run of extract_handlers.py.
RunScanner ==
    /\ Len(hist) < MaxRuns
    /\ \E r \in {Scan(source)} :
        IF r.fault
        THEN /\ hist' = Append(hist, Ran("Scanner", FALSE))
             /\ UNCHANGED <<source, listing, target, ext, rw>>
        ELSE /\ listing' = [exists |-> TRUE, text |-> FormatListing(r.handlers)]
             /\ hist' = Append(hist, Ran("Scanner", TRUE))
             /\ UNCHANGED <<source, target, ext, rw>>

\* One run of extract_full_handlers.py.  Each local of the script is bound
\* once, to the value the script assigns to it.
RunExtractor ==
    /\ Len(hist) < MaxRuns
    /\ \E lines \in {ReadLines(source)}, p \in {HandlersToExtract(listing)} :
        IF p.fault
        THEN /\ hist' = Append(hist, Ran("Extractor", FALSE))
             /\ ext' = NoExt
             /\ UNCHANGED <<source, listing, target, rw>>
        ELSE \E code \in {ExtractedCode(lines, p.handlers)} :
             /\ target' = ExtractorOutput(target, code)
             /\ ext' = [lines |-> lines, handlers |-> p.handlers, code |-> code]
             /\ hist' = Append(hist, Ran("Extractor", TRUE))
             /\ UNCHANGED <<source, listing, rw>>

\* One run of update_message_router.py.  Each local of the script is bound
\* once, to the value the script assigns to it.
RunRewriter ==
    /\ Len(hist) < MaxRuns
    /\ \E p \in {HandlersToRemove(listing)} :
        IF p.fault
        THEN /\ hist' = Append(hist, Ran("Rewriter", FALSE))
             /\ rw' = NoRw
             /\ UNCHANGED <<source, listing, target, ext>>
        ELSE \E lines \in {ReadLines(source)}, remove \in {LinesToRemove(p.handlers)} :
             \E new_lines \in {NewLines(lines, remove)} :
             \E joined \in {Join(new_lines)} :
             \E with_import \in {AddImport(joined)} :
             \E with_field \in {AddField(with_import)} :
             \E with_init \in {AddInit(with_field)} :
                /\ source' = ReSub(with_init)
                /\ rw' = [lines |-> lines, handlers |-> p.handlers,
                          remove |-> remove, new_lines |-> new_lines,
                          steps |-> <<joined, with_import, with_field, with_init>>]
                /\ hist' = Append(hist, Ran("Rewriter", TRUE))
                /\ UNCHANGED <<listing, target, ext>>

(***************************************************************************)
(* The files the scripts are run on.                                       *)
(***************************************************************************)
SeqsUpTo(S, n) == UNION {[1..k -> S] : k \in 0..n}

RECURSIVE JoinLines(_)
\* '\n'.join(ls)
JoinLines(ls) ==
    IF ls = <<>> THEN <<>>
    ELSE IF Len(ls) = 1 THEN Head(ls)
    ELSE Head(ls) \o <<NL>> \o JoinLines(Tail(ls))

\* The text with these lines; its last line ends with a newline iff nl.
FileOf(ls, nl) == JoinLines(ls) \o (IF nl /\ ls # <<>> THEN <<NL>> ELSE <<>>)

Files(alphabet, n) ==
    {FileOf(ls, nl) : ls \in SeqsUpTo(alphabet, n), nl \in BOOLEAN}

NoListing == [exists |-> FALSE, text |-> <<>>]

\* Source lines of the pipeline runs.
PipelineLines ==
    { <<DeclFoo, OPEN>>, <<SigSM>>, <<Close2>>, <<DeclBar, OPEN, CLOSE>> }

\* Source lines of the Scanner runs.
ScannerLines ==
    { <<DeclFoo, OPEN>>, <<SigSM>>, <<DeclBar, OPEN, CLOSE>>, <<DeclFoo>>,
      <<OPEN>>, <<Close2>>, <<>>, <<StrOpen>>, <<DeclGeneric, OPEN>> }

\* Source lines of the runs on a text with anchors.
AnchorLines ==
    { <<ImportNLP>>, <<FieldNLP>>, <<InitAnchor>>, <<SigSM>>, <<Switch>>,
      <<Close2>>, <<DeclFoo, OPEN>> }

\* Lines of a listing that was not written by the Scanner.
ListingLines ==
    { <<NameFoo, COLON, "0", COLON, "1">>,
      <<NameBar, COLON, "1", COLON, "2">>,
      <<NameSM, COLON, "x", COLON, "1">>,
      <<NameFoo, COLON, "x", COLON, "1">>,
      <<NameFoo, COLON, "0", COLON>>,
      <<NameFoo, COLON, "0">>,
      <<NameFoo, COLON, "0", COLON, "1", COLON, "2">>,
      <<SP>>,
      <<>> }

Targets ==
    { <<ClassSR, NL>> \o Placeholder \o <<NL>>,
      <<ClassSR, NL, CLOSE, NL>> }

Init ==
    /\ source \in Files(PipelineLines, MaxLines)
    /\ target \in Targets
    /\ listing = NoListing
    /\ hist = <<>>
    /\ ext = NoExt
    /\ rw = NoRw

Next == RunScanner \/ RunExtractor \/ RunRewriter

Spec == Init /\ [][Next]_vars

InitScanner ==
    /\ source \in Files(ScannerLines, MaxLines)
    /\ target = <<ClassSR, NL>> \o Placeholder \o <<NL>>
    /\ listing = NoListing
    /\ hist = <<>>
    /\ ext = NoExt
    /\ rw = NoRw

NextScanner == RunScanner

SpecScanner == InitScanner /\ [][NextScanner]_vars

InitListing ==
    /\ source \in { FileOf(<< <<DeclFoo, OPEN>>, <<Close2>>, <<SigSM>>, <<Close2>> >>, TRUE),
                     FileOf(<< <<Txt>>, <<DeclBar, OPEN, CLOSE>> >>, FALSE) }
    /\ target \in Targets
    /\ listing \in { [exists |-> TRUE, text |-> t] : t \in Files(ListingLines, MaxListingLines) }
                    \cup {NoListing}
    /\ hist = <<>>
    /\ ext = NoExt
    /\ rw = NoRw

NextListing == RunExtractor \/ RunRewriter

SpecListing == InitListing /\ [][NextListing]_vars

\* The Rewriter is run on a source with anchors and the listing the Scanner
\* wrote for it.
InitAnchors ==
    /\ source \in { FileOf(ls, TRUE) : ls \in SeqsUpTo(AnchorLines, MaxLines) }
    /\ target = <<ClassSR, NL>> \o Placeholder \o <<NL>>
    /\ listing = [exists |-> TRUE, text |-> FormatListing(Scan(source).handlers)]
    /\ hist = <<>>
    /\ ext = NoExt
    /\ rw = NoRw

NextAnchors == RunRewriter

SpecAnchors == InitAnchors /\ [][NextAnchors]_vars

(***************************************************************************)
(* Notions the properties are stated with.                                 *)
(***************************************************************************)
\* The last run was a run of op that ran to its end.
LastOk(op) == hist # <<>> /\ hist[Len(hist)].op = op /\ hist[Len(hist)].ok

\* The files after run k.
After(k) ==
    IF k = Len(hist)
    THEN [source |-> source, listing |-> listing, target |-> target]
    ELSE [source |-> hist[k + 1].source, listing |-> hist[k + 1].listing,
          target |-> hist[k + 1].target]

RECURSIVE EntriesOf(_)
EntriesOf(ls) ==
    IF ls = <<>> THEN <<>>
    ELSE IF Head(ls) = <<>> THEN EntriesOf(Tail(ls))
    ELSE LET f == Split(Head(ls), COLON)
         IN  <<[name |-> f[1][1], start |-> DigitsValue(f[2]), end |-> DigitsValue(f[3])]>>
             \o EntriesOf(Tail(ls))

\* The descriptors of a listing the Scanner wrote, handleStateMessage included.
Entries(file) == EntriesOf(Split(file.text, NL))

\* The lines of the source as the Scanner splits it.
ScanLines == Split(source, NL)

RECURSIVE NetBraces(_, _, _)
\* The '{' minus the '}' of lines a..b (0-based, inclusive).
NetBraces(ls, a, b) ==
    IF a > b THEN 0
    ELSE CountOpen(ls[a + 1]) - CountClose(ls[a + 1]) + NetBraces(ls, a + 1, b)

\* Whether a '{' occurs in lines a..b.
SomeOpen(ls, a, b) == \E j \in a..b : CountOpen(ls[j + 1]) > 0

\* The structural '{' minus the structural '}' of a text.
StructNet(s) ==
    Cardinality({k \in 1..Len(s) : StructOpens(s[k]) = 1})
    - Cardinality({k \in 1..Len(s) : StructCloses(s[k]) = 1})

\* The indices of the lines that match the declaration pattern.
DeclIndices(ls) == {j \in 0..(Len(ls) - 1) : MatchesDecl(ls[j + 1])}

(***************************************************************************)
(* Properties of the Scanner (checked under SpecScanner).                  *)
(***************************************************************************)
\* C2: after a run of the Scanner the listing holds exactly one descriptor
\* for every line that matches the declaration pattern, in file order, and
\* the ranges of two descriptors do not overlap.
C2_OnePerDeclaration ==
    LastOk("Scanner") =>
        LET es == Entries(listing) IN
        /\ {es[k].start : k \in 1..Len(es)} = DeclIndices(ScanLines)
        /\ Len(es) = Cardinality(DeclIndices(ScanLines))
        /\ \A k \in 1..(Len(es) - 1) : es[k].end < es[k + 1].start

\* C3: every descriptor the Scanner writes has 0 <= start <= end < number of
\* lines of the split source, and the descriptors are listed by
\* non-decreasing start.
C3_RangeValidity ==
    LastOk("Scanner") =>
        LET es == Entries(listing) IN
        /\ \A k \in 1..Len(es) :
              /\ 0 <= es[k].start
              /\ es[k].start <= es[k].end
              /\ es[k].end < Len(ScanLines)
        /\ \A k \in 1..(Len(es) - 1) : es[k].start <= es[k + 1].start

\* Two descriptors were written, the first one ending on the line before
\* the second one starts.
C3_Witness ==
    /\ LastOk("Scanner")
    /\ Len(Entries(listing)) = 2
    /\ Entries(listing)[1].end + 1 = Entries(listing)[2].start

\* C7: the lines of every descriptor hold as many structural '{' as
\* structural '}' (braces in string literals are not structural).
C7_StructuralBalance ==
    LastOk("Scanner") =>
        \A k \in 1..Len(Entries(listing)) :
            LET e == Entries(listing)[k]
            IN  StructNet(Join(SubSeq(ScanLines, e.start + 1, e.end + 1))) = 0

\* C8: end is the first line after start at which the counter is zero while
\* a '{' occurs in lines start..end; so the net brace count of the range is
\* zero and end > start.
C8_ClosingRule ==
    LastOk("Scanner") =>
        \A k \in 1..Len(Entries(listing)) :
            LET e == Entries(listing)[k] IN
            /\ e.end > e.start
            /\ NetBraces(ScanLines, e.start, e.end) = 0
            /\ SomeOpen(ScanLines, e.start, e.end)
            /\ \A j \in (e.start + 1)..(e.end - 1) :
                  ~(NetBraces(ScanLines, e.start, j) = 0 /\ SomeOpen(ScanLines, e.start, j))

\* A method whose declaration line is brace-balanced was closed at the
\* line after it, and another one was closed after a nested block.
C8_Witness ==
    /\ LastOk("Scanner")
    /\ \E k \in 1..Len(Entries(listing)) :
          LET e == Entries(listing)[k] IN
          /\ CountOpen(ScanLines[e.start + 1]) > 0
          /\ NetBraces(ScanLines, e.start, e.start) = 0
          /\ e.end = e.start + 1
    /\ \E k \in 1..Len(Entries(listing)) :
          Entries(listing)[k].end >= Entries(listing)[k].start + 2

(***************************************************************************)
(* Properties of the Extractor and the Rewriter (checked under Spec).      *)
(***************************************************************************)
RECURSIVE Moved(_)
\* The descriptors of a listing that are not handleStateMessage.
Moved(es) ==
    IF es = <<>> THEN <<>>
    ELSE (IF Head(es).name # NameSM THEN <<Head(es)>> ELSE <<>>) \o Moved(Tail(es))

\* The indices below n that lie in the range of a descriptor of es.
Covered(es, n) ==
    {i \in 0..(n - 1) : \E k \in 1..Len(es) : es[k].start <= i /\ i <= es[k].end}

RECURSIVE RangeSum(_)
\* The sum of end - start + 1 over the descriptors of es.
RangeSum(es) ==
    IF es = <<>> THEN 0
    ELSE Head(es).end - Head(es).start + 1 + RangeSum(Tail(es))

\* The text of lines a..b (0-based, inclusive) of ls, as far as they exist.
TextOf(ls, a, b) ==
    Join([j \in 1..Len(ls) |-> IF a <= j - 1 /\ j - 1 <= b THEN ls[j] ELSE <<>>])

RECURSIVE Blocks(_, _)
\* The blocks of the descriptors of es, a newline after each.
Blocks(ls, es) ==
    IF es = <<>> THEN <<>>
    ELSE TextOf(ls, Head(es).start, Head(es).end) \o <<NL>> \o Blocks(ls, Tail(es))

\* The text of the target after a run on (target0, source0, listing0) that
\* moves the descriptors es.
Appended(target0, source0, es) ==
    ReplaceAll(target0, Placeholder, <<>>) \o <<NL, Hdr, NL, NL>>
    \o Blocks(ReadLines(source0), es) \o <<CLOSE, NL>>

RECURSIVE CopiedCount(_, _)
\* The number of lines below n that the descriptors of es cover, a line
\* counted once for every descriptor that covers it.
CopiedCount(es, n) ==
    IF es = <<>> THEN 0
    ELSE Cardinality(Covered(<<Head(es)>>, n)) + CopiedCount(Tail(es), n)

\* The lines of ls whose index is in idx, in order.
LinesAt(ls, idx) ==
    Join([i \in 1..Len(ls) |-> IF (i - 1) \in idx THEN <<ls[i]>> ELSE <<>>])

HasPlaceholder(text) == Occurrences(text, Placeholder) > 0

\* C1: a second run of the Extractor, on the target its first run made of
\* a target with the placeholder, leaves the target unchanged.
C1_SecondRunNoChange ==
    \A k \in 1..(Len(hist) - 1) :
        ( /\ hist[k].op = "Extractor" /\ hist[k].ok
          /\ hist[k + 1].op = "Extractor" /\ hist[k + 1].ok
          /\ HasPlaceholder(hist[k].target)
          /\ ~HasPlaceholder(hist[k + 1].target) )
        => After(k + 1).target = hist[k + 1].target

\* C1 amended: the second run finds no placeholder but writes all the same:
\* the target becomes its text followed by a second copy of what the first
\* run appended (header, blocks, closing brace), so it is changed.
C1_SecondRunAppends ==
    \A k \in 1..(Len(hist) - 1) :
        ( /\ hist[k].op = "Extractor" /\ hist[k].ok
          /\ hist[k + 1].op = "Extractor" /\ hist[k + 1].ok
          /\ HasPlaceholder(hist[k].target)
          /\ ~HasPlaceholder(hist[k + 1].target) )
        => LET t1 == hist[k + 1].target
               t2 == After(k + 1).target
               kept == Len(ReplaceAll(hist[k].target, Placeholder, <<>>))
               added == SubSeq(t1, kept + 1, Len(t1))
           IN  /\ t2 = t1 \o added
               /\ Len(added) >= Len(Header) + 2
               /\ t2 # t1

\* The Extractor ran twice in a row after the Scanner, the first time on a
\* target with the placeholder, and moved a block each time.
C1_Witness ==
    /\ Len(hist) = 3
    /\ hist[1].op = "Scanner" /\ hist[1].ok
    /\ hist[2].op = "Extractor" /\ hist[2].ok
    /\ hist[3].op = "Extractor" /\ hist[3].ok
    /\ HasPlaceholder(hist[2].target)
    /\ ~HasPlaceholder(hist[3].target)
    /\ Len(ext.handlers) >= 1

\* C4 as stated: the lines kept are the lines read minus the sum of
\* end - start + 1 over the removed descriptors.
C4_SumOfRanges ==
    LastOk("Rewriter") =>
        Len(rw.new_lines) = Len(rw.lines) - RangeSum(Moved(Entries(hist[Len(hist)].listing)))

\* C4 amended: the lines kept are the lines read minus the number of
\* indices of read lines that lie in a removed range; that number is the sum
\* of end - start + 1 when the removed ranges are pairwise disjoint and
\* every one ends below the number of lines read.
C4_LineCount ==
    LastOk("Rewriter") =>
        LET es == Moved(Entries(hist[Len(hist)].listing))
            n == Len(ReadLines(hist[Len(hist)].source))
        IN  /\ Len(rw.lines) = n
            /\ Len(rw.new_lines) = n - Cardinality(Covered(es, n))
            /\ ( ( /\ \A k \in 1..Len(es) : es[k].start <= es[k].end /\ es[k].end < n
                   /\ \A k \in 1..(Len(es) - 1) : es[k].end < es[k + 1].start )
                 => Len(rw.new_lines) = n - RangeSum(es) )

\* The Rewriter removed a range that ends past the last line it read.
C4_Witness ==
    /\ LastOk("Rewriter")
    /\ LET es == Moved(Entries(hist[Len(hist)].listing)) IN
        /\ Len(es) >= 1
        /\ es[Len(es)].end >= Len(rw.lines)
        /\ Len(rw.new_lines) < Len(rw.lines)
        /\ Len(rw.new_lines) # Len(rw.lines) - RangeSum(es)

\* C6 as stated: a run of the Extractor on a target with the placeholder
\* moves count(listing) - 1 blocks, those of the descriptors other than
\* handleStateMessage, each followed by a newline.
C6_CountMinusOne ==
    (LastOk("Extractor") /\ HasPlaceholder(hist[Len(hist)].target)) =>
        LET run == hist[Len(hist)] IN
        /\ Len(ext.handlers) = Len(Entries(run.listing)) - 1
        /\ target = Appended(run.target, run.source, Moved(Entries(run.listing)))

\* C6 amended: a run of the Extractor on a target with the placeholder moves
\* one block for every listed descriptor other than handleStateMessage:
\* the target becomes its old text without the placeholder, then the header,
\* then for each such descriptor in listing order the source lines
\* start..end as far as they exist followed by one newline, then the
\* closing brace.
C6_ExtractorOutput ==
    (LastOk("Extractor") /\ HasPlaceholder(hist[Len(hist)].target)) =>
        LET run == hist[Len(hist)]
            es == Moved(Entries(run.listing))
        IN  /\ Len(ext.handlers) = Len(es)
            /\ \A k \in 1..Len(es) :
                  /\ ext.handlers[k].name = <<es[k].name>>
                  /\ ext.handlers[k].start = es[k].start
                  /\ ext.handlers[k].end = es[k].end
            /\ target = Appended(run.target, run.source, es)

\* The Extractor moved two blocks from a listing of three descriptors, one
\* of them handleStateMessage.
C6_Witness ==
    /\ LastOk("Extractor")
    /\ HasPlaceholder(hist[Len(hist)].target)
    /\ Len(Entries(hist[Len(hist)].listing)) >= 2
    /\ Len(ext.handlers) >= 1
    /\ Len(ext.handlers) = Len(Entries(hist[Len(hist)].listing)) - 1

\* C9: after Scanner, Extractor and Rewriter in a row the Extractor changed
\* neither the source nor the listing, the Rewriter removed exactly the
\* indices whose lines the Extractor copied, every line index is either kept
\* (in order) or copied once, and no line of handleStateMessage is removed.
C9_PipelineConservation ==
    ( /\ Len(hist) >= 3
      /\ hist[Len(hist) - 2].op = "Scanner" /\ hist[Len(hist) - 2].ok
      /\ hist[Len(hist) - 1].op = "Extractor" /\ hist[Len(hist) - 1].ok
      /\ hist[Len(hist)].op = "Rewriter" /\ hist[Len(hist)].ok ) =>
        LET e == hist[Len(hist) - 1]
            r == hist[Len(hist)]
            ls == ReadLines(r.source)
            n == Len(ls)
            all == Entries(r.listing)
            es == Moved(all)
            copied == Covered(es, n)
            kept == {i \in 0..(n - 1) : i \notin rw.remove}
        IN  /\ r.source = e.source /\ r.listing = e.listing
            /\ ext.lines = ls /\ rw.lines = ls
            /\ (rw.remove \cap (0..(n - 1))) = copied
            /\ kept \cap copied = {} /\ kept \cup copied = 0..(n - 1)
            /\ Join(ext.code) = Blocks(ls, es)
            /\ CopiedCount(es, n) = Cardinality(copied)
            /\ rw.new_lines = LinesAt(ls, kept)
            /\ \A k \in 1..Len(all) :
                  all[k].name = NameSM =>
                      \A i \in all[k].start..all[k].end : i \notin rw.remove


\* Scanner, Extractor and Rewriter ran in a row; a block was copied and
\* removed, and the lines of handleStateMessage were kept.
C9_Witness ==
    /\ Len(hist) >= 3
    /\ hist[Len(hist) - 2].op = "Scanner" /\ hist[Len(hist) - 2].ok
    /\ hist[Len(hist) - 1].op = "Extractor" /\ hist[Len(hist) - 1].ok
    /\ hist[Len(hist)].op = "Rewriter" /\ hist[Len(hist)].ok
    /\ Len(ext.handlers) >= 1
    /\ \E k \in 1..Len(Entries(listing)) : Entries(listing)[k].name = NameSM
    /\ Len(rw.new_lines) >= 2
    /\ Len(rw.new_lines) < Len(rw.lines)


(***************************************************************************)
(* Properties of the listing parse (checked under SpecListing).            *)
(***************************************************************************)
\* The fields of a line of the listing.
FieldsOf(line) == Split(Strip(line), COLON)

IsBlank(line) == Strip(line) = <<>>

\* A non-blank line without exactly three fields, or with a start or end
\* that is not an integer.
Malformed(line) ==
    /\ ~IsBlank(line)
    /\ \/ Len(FieldsOf(line)) # 3
       \/ ~IsInt(FieldsOf(line)[2])
       \/ ~IsInt(FieldsOf(line)[3])

\* A non-blank line without exactly three fields, or one that does not name
\* handleStateMessage and has a start or end that is not an integer.
Unreadable(line) ==
    /\ ~IsBlank(line)
    /\ \/ Len(FieldsOf(line)) # 3
       \/ /\ FieldsOf(line)[1] # <<NameSM>>
          /\ (~IsInt(FieldsOf(line)[2]) \/ ~IsInt(FieldsOf(line)[3]))

ListingLinesOf(file) == Split(file.text, NL)

Unchanged(k) ==
    /\ After(k).source = hist[k].source
    /\ After(k).target = hist[k].target
    /\ After(k).listing = hist[k].listing

\* C10 as stated: a run of the Extractor or the Rewriter on a listing with a
\* malformed non-blank line faults and changes no file; on a listing
\* without one (blank lines or not) it does not fault.
C10_MalformedFaults ==
    \A k \in 1..Len(hist) :
        (hist[k].op \in {"Extractor", "Rewriter"} /\ hist[k].listing.exists) =>
            LET ls == ListingLinesOf(hist[k].listing) IN
            IF \E j \in 1..Len(ls) : Malformed(ls[j])
            THEN ~hist[k].ok /\ Unchanged(k)
            ELSE hist[k].ok

\* C10 amended: the run faults exactly when a non-blank line has not three
\* fields, or names a handler other than handleStateMessage and has a start
\* or end that is not an integer (or the listing is missing); a run that
\* faults changes no file.
C10_UnreadableFaults ==
    \A k \in 1..Len(hist) :
        hist[k].op \in {"Extractor", "Rewriter"} =>
            LET ls == ListingLinesOf(hist[k].listing) IN
            /\ hist[k].ok <=> ( /\ hist[k].listing.exists
                                /\ \A j \in 1..Len(ls) : ~Unreadable(ls[j]) )
            /\ ~hist[k].ok => Unchanged(k)

\* The Extractor and the Rewriter both faulted on a listing with a blank
\* line and a line of two fields, and the files are as they were.
C10_Witness ==
    /\ Len(hist) = 2
    /\ hist[1].op = "Extractor" /\ ~hist[1].ok
    /\ hist[2].op = "Rewriter" /\ ~hist[2].ok
    /\ listing.exists
    /\ \E j \in 1..Len(ListingLinesOf(listing)) :
          /\ FieldsOf(ListingLinesOf(listing)[j]) # <<>>
          /\ Len(FieldsOf(ListingLinesOf(listing)[j])) = 2
          /\ ~IsBlank(ListingLinesOf(listing)[j])
    /\ \E j \in 1..Len(ListingLinesOf(listing)) :
          ListingLinesOf(listing)[j] = <<SP>>
    /\ source = hist[1].source /\ target = hist[1].target

(***************************************************************************)
(* Properties of the substitutions (checked under SpecAnchors).            *)
(***************************************************************************)
RECURSIVE MatchCountFrom(_, _)
MatchCountFrom(s, k) ==
    LET p == FindMatch(s, k)
    IN  IF p = 0 THEN 0 ELSE 1 + MatchCountFrom(s, MatchEnd(s, p) + 1)

\* The number of matches of old_handle_state in a text.
MatchCount(s) == MatchCountFrom(s, 1)

\* The number of times a text was inserted between two texts.
Added(tok, before, after) ==
    Occurrences(after, <<tok>>) - Occurrences(before, <<tok>>)

\* The number of times a text was inserted by the last run of the Rewriter:
\* what the written source holds more than the kept lines.
Inserted(tok) == Added(tok, Join(rw.new_lines), source)

\* C5 as stated: each insertion is applied once when its anchor is in the
\* source and not at all when it is not.
C5_ExactlyOnce ==
    LastOk("Rewriter") =>
        LET src == hist[Len(hist)].source IN
        /\ Inserted(ImportSR) = (IF Occurrences(src, <<ImportNLP>>) > 0 THEN 1 ELSE 0)
        /\ Inserted(FieldSR) = (IF Occurrences(src, <<FieldNLP>>) > 0 THEN 1 ELSE 0)
        /\ Inserted(InitSR) = (IF Occurrences(src, <<InitAnchor>>) > 0 THEN 1 ELSE 0)
        /\ Inserted(DeclSM) = (IF MatchCount(src) > 0 THEN 1 ELSE 0)

\* C5 amended: each substitution is applied once at every occurrence of its
\* anchor in the text as it stands at that step (after the deletion and the
\* earlier substitutions) and leaves the text unchanged when the anchor does
\* not occur in it; the run completes and writes the last text.
C5_OncePerOccurrence ==
    LastOk("Rewriter") =>
        LET c == rw.steps IN
        /\ c[1] = Join(rw.new_lines)
        /\ Added(ImportSR, c[1], c[2]) = Occurrences(c[1], <<ImportNLP>>)
        /\ Len(c[2]) = Len(c[1]) + 2 * Occurrences(c[1], <<ImportNLP>>)
        /\ Occurrences(c[1], <<ImportNLP>>) = 0 => c[2] = c[1]
        /\ Added(FieldSR, c[2], c[3]) = Occurrences(c[2], <<FieldNLP>>)
        /\ Len(c[3]) = Len(c[2]) + 2 * Occurrences(c[2], <<FieldNLP>>)
        /\ Occurrences(c[2], <<FieldNLP>>) = 0 => c[3] = c[2]
        /\ Added(InitSR, c[3], c[4]) = Occurrences(c[3], <<InitAnchor>>)
        /\ Len(c[4]) = Len(c[3]) + (Len(StateRouterInit) - 1) * Occurrences(c[3], <<InitAnchor>>)
        /\ Occurrences(c[3], <<InitAnchor>>) = 0 => c[4] = c[3]
        /\ Added(DeclSM, c[4], source) = MatchCount(c[4])
        /\ MatchCount(c[4]) = 0 => source = c[4]

\* The Rewriter inserted the field declaration at both occurrences of its
\* anchor and the import at the one occurrence of its anchor, and left the
\* text without the third anchor as it was at that step.
C5_Witness ==
    /\ LastOk("Rewriter")
    /\ Occurrences(rw.steps[1], <<ImportNLP>>) = 1
    /\ Occurrences(rw.steps[1], <<FieldNLP>>) = 2
    /\ Occurrences(rw.steps[1], <<InitAnchor>>) = 0
    /\ Occurrences(source, <<ImportSR>>) = 1
    /\ Occurrences(source, <<FieldSR>>) = 2
    /\ rw.steps[4] = rw.steps[3]

====
